---- MODULE Spec2Model ----
(***************************************************************************)
(* Model of the rudder Docker API client: parseEndpoint / NewClient        *)
(* (client.go), Client.BuildImage (part_000) and Client.stream            *)
(* (client.go).                                                            *)
(*                                                                         *)
(* Text is modelled as a sequence of tokens (one-character strings or      *)
(* short words), so formatting and parsing are computed, not assumed.      *)
(***************************************************************************)
EXTENDS Integers, Sequences, FiniteSets, TLC

\* ------------------------------------------------------------------------
\* Bounds and program constants
\* ------------------------------------------------------------------------

\* longest response body, in JSON values, that the daemon sends
MaxEvents == 3

\* client.go:55
SecurePort == 2376
\* client.go:75
PortLimit == 65536
\* client.go:212
StatusLow == 200
\* client.go:212
StatusHigh == 400

\* ------------------------------------------------------------------------
\* Sequence helpers
\* ------------------------------------------------------------------------

Range(s) == { s[i] : i \in 1..Len(s) }

RECURSIVE Flatten(_)
Flatten(ss) == IF ss = << >> THEN << >> ELSE Head(ss) \o Flatten(Tail(ss))

\* ------------------------------------------------------------------------
\* Endpoint strings: <<scheme, "://">> \o host tokens \o path tokens
\* ------------------------------------------------------------------------

Digit == [c \in {"0", "1", "2", "3", "4", "5", "6", "7", "8", "9"} |->
            CASE c = "0" -> 0 [] c = "1" -> 1 [] c = "2" -> 2 [] c = "3" -> 3
              [] c = "4" -> 4 [] c = "5" -> 5 [] c = "6" -> 6 [] c = "7" -> 7
              [] c = "8" -> 8 [] c = "9" -> 9]

DigitChar == <<"0", "1", "2", "3", "4", "5", "6", "7", "8", "9">>

RECURSIVE Itoa(_)
Itoa(n) == IF n < 10 THEN << DigitChar[n + 1] >>
           ELSE Itoa(n \div 10) \o << DigitChar[(n % 10) + 1] >>

PortNumbers == {0, 1, 80, 2375, 2376, 2377, 65535, 65536, 70000}

PortStrings == { Itoa(n) : n \in PortNumbers } \cup { << >>, <<"x">>, <<"2", "x">> }

Schemes == {"tcp", "http", "https", "unix", "ftp"}

Hosts == { << >>, <<"h">>, <<"h", ":", "1", ":", "2">>, <<"%zz">> }
           \cup { <<"h", ":">> \o p : p \in PortStrings }

Paths == { << >>, <<"/", "sock">> }

Endpoints == { <<s, "://">> \o h \o p : s \in Schemes, h \in Hosts, p \in Paths }

NilURL == [Scheme |-> "<nil>", Host |-> << >>, Path |-> << >>]

\* index of the first "/" of the authority-and-path part, or Len + 1
RECURSIVE FirstSlash(_, _)
FirstSlash(s, i) == IF i > Len(s) THEN i
                    ELSE IF s[i] = "/" THEN i ELSE FirstSlash(s, i + 1)

\* net/url.Parse on "scheme://host/path": an invalid percent escape in the
\* host is the parse error
urlParse(raw) ==
    LET rest  == SubSeq(raw, 3, Len(raw))
        slash == FirstSlash(rest, 1)
    IN  IF "%zz" \in Range(rest)
        THEN [u |-> NilURL, err |-> "parse error"]
        ELSE [u |-> [Scheme |-> raw[1],
                     Host   |-> SubSeq(rest, 1, slash - 1),
                     Path   |-> SubSeq(rest, slash, Len(rest))],
              err |-> "nil"]

\* net.SplitHostPort without IPv6 brackets: no colon is the AddrError
\* "missing port in address", more than one is "too many colons in address"
SplitHostPort(host) ==
    LET colons == { i \in 1..Len(host) : host[i] = ":" }
    IN  IF colons = {}
        THEN [host |-> << >>, port |-> << >>, err |-> "missing port in address"]
        ELSE IF Cardinality(colons) > 1
        THEN [host |-> << >>, port |-> << >>, err |-> "too many colons in address"]
        ELSE LET i == CHOOSE j \in colons : TRUE
             IN  [host |-> SubSeq(host, 1, i - 1),
                  port |-> SubSeq(host, i + 1, Len(host)),
                  err  |-> "nil"]

RECURSIVE ParseDigits(_, _)
ParseDigits(s, acc) == IF s = << >> THEN acc
                       ELSE ParseDigits(Tail(s), acc * 10 + Digit[Head(s)])

\* com.StrTo(port).MustInt(): strconv.ParseInt base 10 with the error
\* dropped, so text that is not a number is 0.  (Port strings here are too
\* short to overflow an int.)
MustInt(s) == IF s = << >> \/ \E i \in 1..Len(s) : s[i] \notin DOMAIN Digit
              THEN 0
              ELSE ParseDigits(s, 0)

\* the tcp reinterpretation with the plain-text API port taken for the secure one
TcpScheme_plainPort(number) == IF number = 2375 THEN "https" ELSE "http"

\* the tcp reinterpretation, client.go:55-59
TcpScheme(number) == IF number = SecurePort THEN "https" ELSE "http"

\* the port check, client.go:75
ValidPort(number) == number > 0 /\ number < PortLimit

\* the result of the tcp branch when the host has no port, client.go:47-53
TcpMissingPort(u) == [u |-> u, err |-> "nil"]

parseEndpoint(endpoint) ==
    LET p == urlParse(endpoint)
    IN  IF p.err # "nil" THEN [u |-> NilURL, err |-> "ErrInvalidEndpoint"]
        ELSE
        LET u0 == p.u
            s1 == SplitHostPort(u0.Host)
        IN  IF u0.Scheme = "tcp" /\ s1.err = "missing port in address"
            THEN TcpMissingPort(u0)
            ELSE IF u0.Scheme = "tcp" /\ s1.err # "nil"
            THEN [u |-> NilURL, err |-> "ErrInvalidEndpoint"]
            ELSE
            LET u == IF u0.Scheme = "tcp"
                     THEN [u0 EXCEPT !.Scheme = TcpScheme(MustInt(s1.port))]
                     ELSE u0
            IN  IF u.Scheme \notin {"http", "https", "unix"}
                THEN [u |-> NilURL, err |-> "ErrInvalidEndpoint"]
                ELSE IF u.Scheme = "unix"
                THEN [u |-> u, err |-> "nil"]
                ELSE
                LET s2 == SplitHostPort(u.Host)
                IN  IF s2.err = "missing port in address"
                    THEN [u |-> u, err |-> "nil"]
                    ELSE IF s2.err # "nil"
                    THEN [u |-> NilURL, err |-> "ErrInvalidEndpoint"]
                    ELSE IF ValidPort(MustInt(s2.port))
                    THEN [u |-> u, err |-> "nil"]
                    ELSE [u |-> NilURL, err |-> "ErrInvalidEndpoint"]


\* ------------------------------------------------------------------------
\* Errors: [kind, status, msg].  The package-level sentinels have a kind of
\* their own (they are compared by identity); errors.New and fmt.Errorf
\* at run time give kind "errorString".
\* ------------------------------------------------------------------------

NilErr == [kind |-> "nil", status |-> 0, msg |-> << >>]

ErrConnectionRefused ==
    [kind |-> "ErrConnectionRefused", status |-> 0, msg |-> <<"connectin is refused">>]

ErrMissingOutputStream ==
    [kind |-> "ErrMissingOutputStream", status |-> 0, msg |-> <<"output stream is missing">>]

ErrMissingContext ==
    [kind |-> "ErrMissingContext", status |-> 0, msg |-> <<"context is missing">>]

ErrMultipleContexts ==
    [kind |-> "ErrMultipleContexts", status |-> 0, msg |-> <<"multiple contexts are presented">>]

errorsNew(text) == [kind |-> "errorString", status |-> 0, msg |-> text]

newError(status, body) == [kind |-> "Error", status |-> status, msg |-> body]

\* low-level failures of the operating system and of net/http
OpError(words) == [kind |-> "OpError", status |-> 0, msg |-> words]

DialRefused == OpError(<<"dial unix", "connect:", "connection refused">>)

DialNoFile == OpError(<<"dial unix", "connect:", "no such file or directory">>)

DoRefused == OpError(<<"Post", "dial tcp", "connection refused">>)

DoReset == OpError(<<"Post", "read:", "connection reset by peer">>)

DoUnsupported == OpError(<<"Post", "unsupported protocol scheme">>)

BodyError == OpError(<<"read:", "unexpected EOF">>)

TarError == OpError(<<"open:", "no such file or directory">>)

\* strings.Contains(err.Error(), words)
Contains(err, words) == words \in Range(err.msg)

\* ------------------------------------------------------------------------
\* Progress events and response bodies
\* ------------------------------------------------------------------------

Events == [status   : {<< >>, <<"D">>},
           progress : {<< >>, <<"5">>},
           error    : {<< >>, <<"E">>},
           stream   : {<< >>, <<"a">>}]

\* the events of the daemon in the runs with concurrent calls
ConcEvents == { m \in Events : m.status = << >> /\ m.progress = << >>
                                /\ m.stream = << >> /\ m.error # << >> }

Callers == {1, 2}

StatusCodes == {199, 200, 399, 400}

Options == [OutputStream  : BOOLEAN,
            InputStream   : BOOLEAN,
            ContextDir    : BOOLEAN,
            RawJSONStream : BOOLEAN]

NoOptions == [OutputStream |-> FALSE, InputStream |-> FALSE,
              ContextDir |-> FALSE, RawJSONStream |-> FALSE]

SeqsUpTo(S, n) == UNION { [1..k -> S] : k \in 0..n }

NoResp == [StatusCode |-> 0, json |-> FALSE, items |-> << >>, end |-> "open",
           closed |-> FALSE]

\* a body the code copies or drains without looking into it is a run of
\* one kind of value
PlainEvents == { m \in Events : m.status = << >> /\ m.progress = << >>
                                 /\ m.error = << >> /\ m.stream # << >> }

\* a response: the status line, whether Content-Type is application/json,
\* and the complete values of the body.  end tells how the body ends once
\* its reader gets there: EOF, or ERR for a failed read or a malformed value.
Response(code, json, items) ==
    [StatusCode |-> code, json |-> json, items |-> items, end |-> "open",
     closed |-> FALSE]

BodyEnds == {"EOF", "ERR"}

\* encoding/json of a jsonMessage: every field is omitempty
Field(key, val) == IF val = << >> THEN << >> ELSE <<key, ":">> \o val \o <<",">>

Encode(m) == <<"{">> \o Field("status", m.status) \o Field("progress", m.progress)
                     \o Field("error", m.error) \o Field("stream", m.stream)
                     \o <<"}">>

\* the bytes of a body
RawBody(items) == Flatten([i \in 1..Len(items) |-> Encode(items[i])])


\* ------------------------------------------------------------------------
\* State
\* ------------------------------------------------------------------------

VARIABLES
    endpoint,      \* Client.endpoint: the string given to NewClient
    parsed,        \* the result of parseEndpoint(endpoint); .u is Client.endpointURL
    callers,       \* the goroutines that call BuildImage on the client
    daemonEvents,  \* the progress events the daemon may put in a body
    pc,            \* per call: idle, stream, dialed, decoding, copying, done
    opt,           \* per call: the BuildImageOption the caller passed
    in,            \* per call: the request body: nil, stream (InputStream) or tar
    netlog,        \* per call: the network operations made so far, in order
    conns,         \* every connection net.Dial has returned: its owner and state
    conn,          \* per call: index in conns of the call's clientconn, 0 if none
    lowerr,        \* per call: the error net.Dial or Do returned, NilErr if none
    resp,          \* per call: the response, NoResp before there is one
    pos,           \* per call: number of JSON values the decoder has returned
    stdout,        \* per call: what was written to opt.OutputStream
    stderr,        \* per call: what was written to the stderr sink
    result         \* per call: the error BuildImage returned (NilErr: nil)

vars == <<endpoint, parsed, callers, daemonEvents, pc, opt, in, netlog, conns,
          conn, lowerr, resp, pos, stdout, stderr, result>>

clientVars == <<endpoint, parsed, callers, daemonEvents>>

Unparsed == [u |-> NilURL, err |-> "unparsed"]

\* one endpoint for each scheme parseEndpoint can return
ClientEndpoints == { <<"unix", "://", "/", "sock">>,
                     <<"tcp", "://", "h", ":", "2", "3", "7", "6">>,
                     <<"tcp", "://", "h">> }

protocol == parsed.u.Scheme

InitCalls ==
    /\ pc = [c \in Callers |-> "idle"]
    /\ opt = [c \in Callers |-> NoOptions]
    /\ in = [c \in Callers |-> "nil"]
    /\ netlog = [c \in Callers |-> << >>]
    /\ conns = << >>
    /\ conn = [c \in Callers |-> 0]
    /\ lowerr = [c \in Callers |-> NilErr]
    /\ resp = [c \in Callers |-> NoResp]
    /\ pos = [c \in Callers |-> 0]
    /\ stdout = [c \in Callers |-> << >>]
    /\ stderr = [c \in Callers |-> << >>]
    /\ result = [c \in Callers |-> NilErr]

\* a client from NewClient, used by one caller
Init ==
    /\ endpoint \in ClientEndpoints
    /\ parsed = parseEndpoint(endpoint)
    /\ parsed.err = "nil"
    /\ callers = {1}
    /\ daemonEvents = Events
    /\ InitCalls

\* a client from NewClient, used by two callers at once
InitConc ==
    /\ endpoint \in ClientEndpoints
    /\ parsed = parseEndpoint(endpoint)
    /\ parsed.err = "nil"
    /\ callers = Callers
    /\ daemonEvents = ConcEvents
    /\ InitCalls

\* before NewClient: any endpoint string
InitEndpoint ==
    /\ endpoint \in Endpoints
    /\ parsed = Unparsed
    /\ callers = {}
    /\ daemonEvents = {}
    /\ InitCalls

\* ------------------------------------------------------------------------
\* NewClient (client.go:86-96)
\* ------------------------------------------------------------------------

NewClient ==
    /\ parsed = Unparsed
    /\ parsed' = parseEndpoint(endpoint)
    /\ UNCHANGED <<endpoint, callers, daemonEvents, pc, opt, in, netlog, conns,
                   conn, lowerr, resp, pos, stdout, stderr, result>>

\* ------------------------------------------------------------------------
\* BuildImage (part_000:75-101)
\* ------------------------------------------------------------------------

\* the checks of the options without the one for two contexts
checkOptions_oneContextCheck(o) ==
    IF ~o.OutputStream THEN ErrMissingOutputStream
    ELSE IF ~(o.InputStream \/ o.ContextDir) THEN ErrMissingContext
    ELSE NilErr

\* the checks of the options, part_000:76-93.  headersWithAuth marshals
\* structs of strings and a map of them, which encoding/json never refuses.
checkOptions(o) ==
    IF ~o.OutputStream THEN ErrMissingOutputStream
    ELSE IF ~(o.InputStream \/ o.ContextDir) THEN ErrMissingContext
    ELSE IF o.ContextDir /\ o.InputStream THEN ErrMultipleContexts
    ELSE NilErr

\* createTarStream(opt.ContextDir): a tar stream or an I/O error
createTarStream == {NilErr, TarError}

\* the deferred calls run when stream returns: clientconn.Close() closes the
\* call's connection, resp.Body.Close() the body
ConnsAfterDefers(c, defers) ==
    IF "clientconn.Close" \in defers
    THEN [conns EXCEPT ![conn[c]].state = "closed"]
    ELSE conns

RespAfterDefers(r, defers) ==
    IF "resp.Body.Close" \in defers THEN [r EXCEPT !.closed = TRUE] ELSE r

\* the call returns err to its caller after running the deferred calls
Return(c, err, r, defers) ==
    /\ pc' = [pc EXCEPT ![c] = "done"]
    /\ result' = [result EXCEPT ![c] = err]
    /\ conns' = ConnsAfterDefers(c, defers)
    /\ resp' = [resp EXCEPT ![c] = RespAfterDefers(r, defers)]

\* BuildImage sending the request before it has checked the options
BuildImage_sendFirst(c) ==
    /\ c \in callers
    /\ pc[c] = "idle"
    /\ \E o \in Options :
        LET err == checkOptions(o)
        IN  /\ opt' = [opt EXCEPT ![c] = o]
            /\ netlog' = [netlog EXCEPT ![c] = Append(@, "do")]
            /\ IF err # NilErr
               THEN /\ Return(c, err, resp[c], {})
                    /\ UNCHANGED in
               ELSE /\ in' = [in EXCEPT ![c] = IF o.ContextDir THEN "tar" ELSE "stream"]
                    /\ pc' = [pc EXCEPT ![c] = "stream"]
                    /\ UNCHANGED <<result, conns, resp>>
    /\ UNCHANGED <<clientVars, conn, lowerr, pos, stdout, stderr>>

BuildImage(c) ==
    /\ c \in callers
    /\ pc[c] = "idle"
    /\ \E o \in Options, tar \in createTarStream :
        LET err == checkOptions(o)
        IN  /\ opt' = [opt EXCEPT ![c] = o]
            /\ IF err # NilErr
               THEN /\ Return(c, err, resp[c], {})
                    /\ UNCHANGED in
               ELSE IF o.ContextDir /\ tar # NilErr
               THEN /\ Return(c, errorsNew(<<"create tar stream: ">> \o tar.msg),
                              resp[c], {})
                    /\ UNCHANGED in
               ELSE /\ in' = [in EXCEPT ![c] = IF o.ContextDir THEN "tar" ELSE "stream"]
                    /\ pc' = [pc EXCEPT ![c] = "stream"]
                    /\ UNCHANGED <<result, conns, resp>>
    /\ UNCHANGED <<clientVars, netlog, conn, lowerr, pos, stdout, stderr>>

\* ------------------------------------------------------------------------
\* stream (client.go:168-254), called with method POST, setRawTerminal
\* true, stdout = opt.OutputStream and stderr = nil.  http.NewRequest gets
\* a valid method and the URL of an endpoint that has parsed already, so it
\* does not fail.
\* ------------------------------------------------------------------------

\* clientconn.Close deferred only after Do's error has been looked at
DefersAfterDo_afterCheck(scheme, failed) ==
    IF failed THEN {}
    ELSE (IF scheme = "unix" THEN {"clientconn.Close"} ELSE {}) \cup {"resp.Body.Close"}

\* the deferred calls registered when Do has returned: clientconn.Close for
\* a unix endpoint whether Do failed or not (client.go:201), resp.Body.Close
\* when there is a response (client.go:211)
DefersAfterDo(scheme, failed) ==
    (IF scheme = "unix" THEN {"clientconn.Close"} ELSE {})
    \cup (IF failed THEN {} ELSE {"resp.Body.Close"})

DialErrors == {DialRefused, DialNoFile}

\* net.Dial("unix", address), client.go:195-198
Dial(c) ==
    /\ pc[c] = "stream"
    /\ protocol = "unix"
    /\ netlog' = [netlog EXCEPT ![c] = Append(@, "dial")]
    /\ \/ /\ conns' = Append(conns, [owner |-> c, state |-> "open"])
          /\ conn' = [conn EXCEPT ![c] = Len(conns) + 1]
          /\ pc' = [pc EXCEPT ![c] = "dialed"]
          /\ UNCHANGED <<lowerr, result, resp>>
       \/ \E e \in DialErrors :
          /\ lowerr' = [lowerr EXCEPT ![c] = e]
          /\ pc' = [pc EXCEPT ![c] = "done"]
          /\ result' = [result EXCEPT ![c] = e]
          /\ UNCHANGED <<conn, conns, resp>>
    /\ UNCHANGED <<clientVars, opt, in, pos, stdout, stderr>>

\* what Do can fail with: only http and https are schemes net/http speaks
DoErrors(scheme) == IF scheme \in {"unix", "http", "https"}
                    THEN {DoRefused, DoReset}
                    ELSE {DoUnsupported}

\* client.go:205-210
mapError(err) == IF Contains(err, "connection refused")
                 THEN ErrConnectionRefused
                 ELSE err

\* the status check with 400 taken for a success
StatusFails_above400(code) == code < StatusLow \/ code > StatusHigh

\* client.go:212
StatusFails(code) == code < StatusLow \/ code >= StatusHigh

\* whether the body goes to the JSON decoder, client.go:219-226
Decodes(r, o) == ~StatusFails(r.StatusCode) /\ r.json /\ ~o.RawJSONStream

\* the bodies the daemon may send
Bodies(code, json, o) ==
    SeqsUpTo(IF Decodes(Response(code, json, << >>), o) THEN daemonEvents
             ELSE PlainEvents, MaxEvents)

\* clientconn.Do / HTTPClient.Do, the error check, the status check with
\* ioutil.ReadAll of the body, and the choice of the decoder,
\* client.go:199-226 and 245
Do(c) ==
    /\ \/ protocol = "unix" /\ pc[c] = "dialed"
       \/ protocol # "unix" /\ pc[c] = "stream"
    /\ netlog' = [netlog EXCEPT ![c] = Append(@, "do")]
    /\ \/ \E e \in DoErrors(protocol) :
          /\ lowerr' = [lowerr EXCEPT ![c] = e]
          /\ Return(c, mapError(e), resp[c], DefersAfterDo(protocol, TRUE))
       \/ /\ protocol \in {"unix", "http", "https"}
          /\ \E code \in StatusCodes, json \in BOOLEAN, end \in BodyEnds :
             \E items \in Bodies(code, json, opt[c]) :
             LET r0 == Response(code, json, items)
             IN
             /\ IF StatusFails(r0.StatusCode)
                THEN Return(c, IF end = "ERR" THEN BodyError
                               ELSE newError(r0.StatusCode, RawBody(r0.items)),
                            [r0 EXCEPT !.end = end],
                            DefersAfterDo(protocol, FALSE))
                ELSE /\ resp' = [resp EXCEPT ![c] = r0]
                     /\ pc' = [pc EXCEPT ![c] =
                                 IF Decodes(r0, opt[c]) THEN "decoding" ELSE "copying"]
                     /\ UNCHANGED <<result, conns>>
          /\ UNCHANGED lowerr
    /\ UNCHANGED <<clientVars, opt, in, conn, pos, stdout, stderr>>

\* the loop body with the error field never looked at
Handle_errorIgnored(m) ==
    IF m.stream # << >>
    THEN [abort |-> FALSE,
          out   |-> m.stream
                    \o (IF m.status # << >> THEN m.status \o <<"LF">> ELSE << >>)]
    ELSE IF m.progress # << >>
    THEN [abort |-> FALSE,
          out   |-> m.status \o <<" ">> \o m.progress \o <<"CR">>
                    \o (IF m.status # << >> THEN m.status \o <<"LF">> ELSE << >>)]
    ELSE [abort |-> FALSE,
          out   |-> IF m.status # << >> THEN m.status \o <<"LF">> ELSE << >>]

\* the loop body with Fprintln in place of Fprint for the stream field
Handle_streamNewline(m) ==
    IF m.stream # << >>
    THEN [abort |-> FALSE,
          out   |-> m.stream \o <<"LF">>
                    \o (IF m.status # << >> THEN m.status \o <<"LF">> ELSE << >>)]
    ELSE IF m.progress # << >>
    THEN [abort |-> FALSE,
          out   |-> m.status \o <<" ">> \o m.progress \o <<"CR">>
                    \o (IF m.status # << >> THEN m.status \o <<"LF">> ELSE << >>)]
    ELSE IF m.error # << >>
    THEN [abort |-> TRUE, out |-> << >>]
    ELSE [abort |-> FALSE,
          out   |-> IF m.status # << >> THEN m.status \o <<"LF">> ELSE << >>]

\* one pass of the decoding loop on a decoded message, client.go:234-243:
\* what is written to stdout and whether the call returns errors.New(m.Error)
Handle(m) ==
    IF m.stream # << >>
    THEN [abort |-> FALSE,
          out   |-> m.stream
                    \o (IF m.status # << >> THEN m.status \o <<"LF">> ELSE << >>)]
    ELSE IF m.progress # << >>
    THEN [abort |-> FALSE,
          out   |-> m.status \o <<" ">> \o m.progress \o <<"CR">>
                    \o (IF m.status # << >> THEN m.status \o <<"LF">> ELSE << >>)]
    ELSE IF m.error # << >>
    THEN [abort |-> TRUE, out |-> << >>]
    ELSE [abort |-> FALSE,
          out   |-> IF m.status # << >> THEN m.status \o <<"LF">> ELSE << >>]

\* dec.Decode and the loop body, client.go:227-244, 253
Decode(c) ==
    /\ pc[c] = "decoding"
    /\ IF pos[c] = Len(resp[c].items)
       THEN /\ \E end \in BodyEnds :
                 Return(c, IF end = "EOF" THEN NilErr ELSE BodyError,
                        [resp[c] EXCEPT !.end = end], DefersAfterDo(protocol, FALSE))
            /\ UNCHANGED <<pos, stdout>>
       ELSE LET m == resp[c].items[pos[c] + 1]
                h == Handle(m)
            IN  /\ pos' = [pos EXCEPT ![c] = @ + 1]
                /\ stdout' = [stdout EXCEPT ![c] = @ \o h.out]
                /\ IF h.abort
                   THEN Return(c, errorsNew(m.error), resp[c], DefersAfterDo(protocol, FALSE))
                   ELSE UNCHANGED <<pc, result, conns, resp>>
    /\ UNCHANGED <<clientVars, opt, in, netlog, conn, lowerr, stderr>>

\* io.Copy(stdout, resp.Body), client.go:222-225 and 246-251 (setRawTerminal
\* is true, so stdCopy is not called)
Copy(c) ==
    /\ pc[c] = "copying"
    /\ stdout' = [stdout EXCEPT ![c] = @ \o RawBody(resp[c].items)]
    /\ \E end \in BodyEnds :
         Return(c, IF end = "EOF" THEN NilErr ELSE BodyError,
                [resp[c] EXCEPT !.end = end], DefersAfterDo(protocol, FALSE))
    /\ UNCHANGED <<clientVars, opt, in, netlog, conn, lowerr, pos, stderr>>

\* ------------------------------------------------------------------------
\* Specifications
\* ------------------------------------------------------------------------

Next == \E c \in Callers :
            BuildImage(c) \/ Dial(c) \/ Do(c) \/ Decode(c) \/ Copy(c)

NextEndpoint == NewClient

Spec == Init /\ [][Next]_vars

SpecConc == InitConc /\ [][Next]_vars

SpecEndpoint == InitEndpoint /\ [][NextEndpoint]_vars

TypeOK ==
    /\ pc \in [Callers -> {"idle", "stream", "dialed", "decoding", "copying",
                           "done"}]
    /\ opt \in [Callers -> Options]
    /\ in \in [Callers -> {"nil", "stream", "tar"}]
    /\ conn \in [Callers -> 0..Len(conns)]
    /\ pos \in [Callers -> 0..MaxEvents]


\* ------------------------------------------------------------------------
\* Properties
\* ------------------------------------------------------------------------

\* the call's body went to the JSON decoder: a status in [200, 400), the
\* JSON content type and no raw passthrough
JsonEventMode(c) ==
    /\ resp[c] # NoResp
    /\ resp[c].StatusCode >= 200 /\ resp[c].StatusCode < 400
    /\ resp[c].json
    /\ ~opt[c].RawJSONStream

\* what one event adds to stdout
EventOutput(m) ==
    (IF m.stream # << >> THEN m.stream
     ELSE IF m.progress # << >> THEN m.status \o <<" ">> \o m.progress \o <<"CR">>
     ELSE << >>)
    \o (IF m.status # << >> THEN m.status \o <<"LF">> ELSE << >>)

\* the output of the first n events of a body
OutputOf(items, n) == Flatten([i \in 1..n |-> EventOutput(items[i])])

OnlyError(m) == m.error # << >> /\ m.stream = << >> /\ m.progress = << >>
                /\ m.status = << >>

\* C1: in JSON-event mode every processed event with a non-empty error
\* field, whatever its other fields, ends the call with an error carrying
\* that message, and no later event is processed.
C1_ErrorEventAborts ==
    \A c \in Callers : JsonEventMode(c) =>
        \A i \in 1..pos[c] :
            resp[c].items[i].error # << >> =>
                /\ pc[c] = "done"
                /\ result[c] = errorsNew(resp[c].items[i].error)
                /\ pos[c] = i

\* C2: when event k is the first error event and has only error set, the
\* call returns event k's message, stdout is exactly the output of events
\* 1..k-1 and no event after k is processed.
C2_FirstErrorEvent ==
    \A c \in Callers : JsonEventMode(c) =>
        \A k \in 1..pos[c] :
            (/\ OnlyError(resp[c].items[k])
             /\ \A j \in 1..(k - 1) : resp[c].items[j].error = << >>)
            => /\ pc[c] = "done"
               /\ result[c] = errorsNew(resp[c].items[k].error)
               /\ pos[c] = k
               /\ stdout[c] = OutputOf(resp[c].items, k - 1)

\* an error event in the middle of a body of three, after an event with output
C2_Witness ==
    \E c \in Callers :
        /\ JsonEventMode(c) /\ pc[c] = "done"
        /\ Len(resp[c].items) = 3 /\ pos[c] = 2
        /\ resp[c].items[1].error = << >> /\ OnlyError(resp[c].items[2])
        /\ stdout[c] # << >>

ConfigErrors == {ErrMissingOutputStream, ErrMissingContext, ErrMultipleContexts}

\* C3: a call that ends in MissingOutputStream, MissingContext or
\* MultipleContexts has dialed no connection and sent no request.
C3_ConfigErrorsBeforeNetwork ==
    \A c \in Callers : result[c] \in ConfigErrors =>
        /\ pc[c] = "done"
        /\ netlog[c] = << >>
        /\ conn[c] = 0
        /\ \A i \in 1..Len(conns) : conns[i].owner # c
        /\ resp[c] = NoResp

C3_Witness ==
    \E c \in Callers : pc[c] = "done" /\ ~opt[c].OutputStream
                       /\ result[c] = ErrMissingOutputStream

\* C4: with an output sink, both contexts give MultipleContexts, none gives
\* MissingContext, and the request is sent only with exactly one context.
C4_ContextSources ==
    \A c \in Callers : (pc[c] # "idle" /\ opt[c].OutputStream) =>
        /\ (opt[c].ContextDir /\ opt[c].InputStream)
               => (pc[c] = "done" /\ result[c] = ErrMultipleContexts)
        /\ (~opt[c].ContextDir /\ ~opt[c].InputStream)
               => (pc[c] = "done" /\ result[c] = ErrMissingContext)
        /\ (pc[c] \in {"stream", "dialed", "decoding", "copying"} \/ netlog[c] # << >>)
               => (opt[c].ContextDir # opt[c].InputStream)

C4_Witness ==
    \E c \in Callers : /\ opt[c].OutputStream /\ opt[c].ContextDir /\ ~opt[c].InputStream
                       /\ "do" \in Range(netlog[c]) /\ in[c] = "tar"

\* the connections net.Dial has returned to call c
ConnsOf(c) == { i \in 1..Len(conns) : conns[i].owner = c }

\* call c has dialed and net.Dial did not fail
DialedOK(c) == "dial" \in Range(netlog[c]) /\ lowerr[c] \notin DialErrors

\* C5: on a unix endpoint a call that dials successfully has exactly one
\* connection, which no other call has, and which is closed once the call
\* has returned, whatever the way it returned.
C5_UnixConnPerCall ==
    protocol = "unix" =>
        \A c \in Callers :
            /\ DialedOK(c) => (ConnsOf(c) = {conn[c]} /\ conn[c] # 0)
            /\ ~DialedOK(c) => (ConnsOf(c) = {} /\ conn[c] = 0)
            /\ \A d \in Callers \ {c} : conn[c] # 0 => conn[c] # conn[d]
            /\ pc[c] = "done" => \A i \in ConnsOf(c) : conns[i].state = "closed"

\* two concurrent calls, one ended by a failed request and one by a remote
\* error event, both with their own closed connection
C5_Witness ==
    /\ protocol = "unix"
    /\ pc[1] = "done" /\ pc[2] = "done"
    /\ conn[1] # 0 /\ conn[2] # 0 /\ conn[1] # conn[2]
    /\ lowerr[1] \in {DoRefused, DoReset}
    /\ result[2].kind = "errorString"

\* C6: a connection-refused failure of net.Dial or of Do is returned as
\* ErrConnectionRefused, any other failure of theirs unchanged.
C6_RefusedMapped ==
    \A c \in Callers : (pc[c] = "done" /\ lowerr[c] # NilErr) =>
        result[c] = IF Contains(lowerr[c], "connection refused")
                    THEN ErrConnectionRefused
                    ELSE lowerr[c]

\* a response whose status is outside [200, 400)
StatusError(c) ==
    resp[c] # NoResp /\ (resp[c].StatusCode < 200 \/ resp[c].StatusCode >= 400)

\* C7 as stated: every response with a status outside [200, 400) ends in
\* an API error with that status and the body, and nothing is written.
C7_StatusErrorIsAPIError ==
    \A c \in Callers : StatusError(c) =>
        /\ pc[c] = "done"
        /\ result[c] = newError(resp[c].StatusCode, RawBody(resp[c].items))
        /\ pos[c] = 0 /\ stdout[c] = << >> /\ stderr[c] = << >>

\* C7 amended: for a response with a status outside [200, 400) no decoder
\* or copy runs and nothing is written; the call returns the API error with
\* that status and the body when the body could be read to its end, and the
\* read error otherwise.
C7_StatusErrorNoDecode ==
    \A c \in Callers : StatusError(c) =>
        /\ pc[c] = "done"
        /\ pos[c] = 0 /\ stdout[c] = << >> /\ stderr[c] = << >>
        /\ resp[c].end = "EOF"
               => result[c] = newError(resp[c].StatusCode, RawBody(resp[c].items))
        /\ resp[c].end = "ERR" => result[c] = BodyError

C7_Witness ==
    \E c \in Callers : /\ StatusError(c) /\ resp[c].StatusCode = 400
                       /\ resp[c].json /\ ~opt[c].RawJSONStream
                       /\ resp[c].items # << >>
                       /\ result[c].kind = "Error" /\ result[c].status = 400

\* the port text of an endpoint string, << >> if it has none
PortText(e) ==
    LET p == urlParse(e)
    IN  IF p.err # "nil" THEN << >>
        ELSE LET hp == SplitHostPort(p.u.Host)
             IN  IF hp.err # "nil" THEN << >> ELSE hp.port

NumericPort(e) ==
    PortText(e) # << >> /\ \A i \in 1..Len(PortText(e)) : PortText(e)[i] \in DOMAIN Digit

\* the scheme of an endpoint string after the tcp reinterpretation
Reinterpreted(e) ==
    IF e[1] = "tcp" /\ NumericPort(e)
    THEN (IF MustInt(PortText(e)) = 2376 THEN "https" ELSE "http")
    ELSE e[1]

\* C8: a successful parseEndpoint returns scheme http, https or unix, and
\* an input whose scheme is anything else after the tcp reinterpretation
\* fails with ErrInvalidEndpoint.
C8_SchemeAllowed ==
    parsed # Unparsed =>
        /\ parsed.err = "nil" => parsed.u.Scheme \in {"http", "https", "unix"}
        /\ Reinterpreted(endpoint) \notin {"http", "https", "unix"}
               => parsed.err = "ErrInvalidEndpoint"

\* C9 as stated: a tcp endpoint with a numeric port resolves to https for
\* port 2376 and to http for any other numeric port.
C9_TcpPortScheme ==
    (parsed # Unparsed /\ endpoint[1] = "tcp" /\ NumericPort(endpoint)) =>
        /\ parsed.err = "nil"
        /\ parsed.u.Scheme = IF MustInt(PortText(endpoint)) = 2376
                             THEN "https" ELSE "http"

\* C9 amended: a tcp endpoint with a numeric port in (0, 65536) resolves to
\* https for port 2376 and to http for any other port; with a numeric port
\* outside (0, 65536) parseEndpoint fails with ErrInvalidEndpoint.
C9_TcpValidPortScheme ==
    (parsed # Unparsed /\ endpoint[1] = "tcp" /\ NumericPort(endpoint)) =>
        LET n == MustInt(PortText(endpoint))
        IN  IF n > 0 /\ n < 65536
            THEN /\ parsed.err = "nil"
                 /\ parsed.u.Scheme = IF n = 2376 THEN "https" ELSE "http"
            ELSE parsed.err = "ErrInvalidEndpoint"

C9_Witness ==
    /\ endpoint = <<"tcp", "://", "h", ":", "2", "3", "7", "6">>
    /\ parsed.err = "nil" /\ parsed.u.Scheme = "https"

\* C10: in JSON-event mode, for a body in which no event has an error,
\* stdout is the concatenation in order of the outputs of the events
\* processed so far and stderr is empty; after a clean end of the stream
\* the call has returned nil with every event processed.
C10_OutputConcatenation ==
    \A c \in Callers :
        (JsonEventMode(c) /\ \A i \in 1..Len(resp[c].items) :
                                 resp[c].items[i].error = << >>) =>
            /\ stdout[c] = OutputOf(resp[c].items, pos[c])
            /\ stderr[c] = << >>
            /\ (pc[c] = "done" /\ resp[c].end = "EOF")
                   => (result[c] = NilErr /\ pos[c] = Len(resp[c].items))

\* the events {stream a}, {progress 5, status D}, {status D}
C10_Witness ==
    \E c \in Callers :
        /\ JsonEventMode(c) /\ pc[c] = "done" /\ result[c] = NilErr
        /\ resp[c].items = << [status |-> << >>, progress |-> << >>,
                               error |-> << >>, stream |-> <<"a">>],
                              [status |-> <<"D">>, progress |-> <<"5">>,
                               error |-> << >>, stream |-> << >>],
                              [status |-> <<"D">>, progress |-> << >>,
                               error |-> << >>, stream |-> << >>] >>
        /\ stdout[c] = <<"a", "D", " ", "5", "CR", "D", "LF", "D", "LF">>

====
